---------------------------- MODULE Spec2Model ----------------------------
(***************************************************************************)
(* Model of src/add.py: the caching NumberValidator, the input sources     *)
(* (ListSource, FileSource, and any other InputSource implementation) and  *)
(* AdditionService.add_from_source, which streams tokens from a source,    *)
(* validates each one, sums the valid ones as decimals and returns an      *)
(* OperationResult.                                                        *)
(*                                                                         *)
(* Texts are sequences of strings: a token is a sequence of one-character  *)
(* strings (so that strip, lower, membership of '.' and 'e' and the        *)
(* decimal grammar are computed on the characters), and a message is the   *)
(* concatenation of its literal parts (kept as whole strings) with the     *)
(* characters of the values formatted into it.                             *)
(*                                                                         *)
(* Decimals are records [kind, sign, coef, exp]: value (-1)^sign * coef *  *)
(* 10^exp for kind "fin", and kinds "inf", "nan", "snan" for the special   *)
(* values decimal.Decimal accepts.  Coefficients of the tokens in Pool are *)
(* small, so the 28-digit rounding that the default decimal context        *)
(* applies to an addition is never needed within the bounds; the 28-digit  *)
(* limit of quantize is modelled (it depends on digit counts only).        *)
(***************************************************************************)
EXTENDS Integers, Sequences, FiniteSets, TLC

(***************************************************************************)
(* Bounds of the model.                                                    *)
(***************************************************************************)
\* longest token stream a source yields
MaxLen == 2
\* largest operations_count: the calls of add_from_source that run to
\* completion on the one service (aborted calls are not counted by the code)
MaxOperations == 2
\* NumberValidator.MAX_CACHE_SIZE, 10000 in the source (line 54), scaled down
\* so that the full clear happens within a few calls
MAX_CACHE_SIZE == 2
\* the length of the long lists, which have more invalid tokens than the five
\* that line 242 shows
LongLen == 7

\* precision of the default decimal context (decimal.getcontext().prec)
PREC == 28

(***************************************************************************)
(* Text helpers: str.strip, str.lower, the `in` test on characters, str()  *)
(* of a non-negative int.                                                  *)
(***************************************************************************)
IsSpace(c) == c \in {" ", "\t", "\n"}

Digits == {"0", "1", "2", "3", "4", "5", "6", "7", "8", "9"}

DigitVal(c) ==
  CASE c = "0" -> 0 [] c = "1" -> 1 [] c = "2" -> 2 [] c = "3" -> 3
    [] c = "4" -> 4 [] c = "5" -> 5 [] c = "6" -> 6 [] c = "7" -> 7
    [] c = "8" -> 8 [] c = "9" -> 9

DigitChar(n) ==
  CASE n = 0 -> "0" [] n = 1 -> "1" [] n = 2 -> "2" [] n = 3 -> "3"
    [] n = 4 -> "4" [] n = 5 -> "5" [] n = 6 -> "6" [] n = 7 -> "7"
    [] n = 8 -> "8" [] n = 9 -> "9"

LowerChar(c) ==
  CASE c = "A" -> "a" [] c = "E" -> "e" [] c = "F" -> "f" [] c = "I" -> "i"
    [] c = "N" -> "n" [] c = "S" -> "s" [] c = "T" -> "t" [] c = "Y" -> "y"
    [] OTHER -> c

lower(s) == [i \in 1..Len(s) |-> LowerChar(s[i])]

RECURSIVE lstrip(_)
lstrip(s) == IF s # <<>> /\ IsSpace(Head(s)) THEN lstrip(Tail(s)) ELSE s

RECURSIVE rstrip(_)
rstrip(s) ==
  IF s # <<>> /\ IsSpace(s[Len(s)]) THEN rstrip(SubSeq(s, 1, Len(s) - 1)) ELSE s

strip(s) == rstrip(lstrip(s))

Contains(s, c) == \E i \in 1..Len(s) : s[i] = c

RECURSIVE IntToStr(_)
IntToStr(n) ==
  IF n < 10 THEN <<DigitChar(n)>>
  ELSE IntToStr(n \div 10) \o <<DigitChar(n % 10)>>

AllDigits(s) == \A i \in 1..Len(s) : s[i] \in Digits

RECURSIVE DigitsToInt(_)
DigitsToInt(s) ==
  IF s = <<>> THEN 0
  ELSE 10 * DigitsToInt(SubSeq(s, 1, Len(s) - 1)) + DigitVal(s[Len(s)])

RECURSIVE Pow10(_)
Pow10(n) == IF n <= 0 THEN 1 ELSE 10 * Pow10(n - 1)

RECURSIVE NumDigits(_)
NumDigits(n) == IF n < 10 THEN 1 ELSE 1 + NumDigits(n \div 10)


(***************************************************************************)
(* decimal.Decimal: construction from a string, addition in the default    *)
(* context, quantize with ROUND_HALF_UP.  An operation that signals        *)
(* InvalidOperation (trapped in the default context, so it raises) yields  *)
(* the value Raised.                                                       *)
(***************************************************************************)
Dec(k, s, c, e) == [kind |-> k, sign |-> s, coef |-> c, exp |-> e]

\* Python's None where a Decimal is expected
NoneDec == Dec("None", 0, 0, 0)

\* decimal.InvalidOperation raised by an operation
Raised == Dec("InvalidOperation", 0, 0, 0)

Min(a, b) == IF a <= b THEN a ELSE b

Max(a, b) == IF a >= b THEN a ELSE b

IndexOf(s, c) ==
  IF Contains(s, c) THEN CHOOSE i \in 1..Len(s) :
                           s[i] = c /\ \A j \in 1..(i - 1) : s[j] # c
  ELSE 0

\* the text after an optional leading sign
Unsigned(s) == IF s # <<>> /\ Head(s) \in {"+", "-"} THEN Tail(s) ELSE s

SignOf(s) == IF s # <<>> /\ Head(s) = "-" THEN 1 ELSE 0

\* Decimal(str): the grammar of decimal's parser on the stripped text, case
\* ignored: [sign] (digits [. digits] [e [sign] digits] | inf[inity] | [s]nan).
\* A text outside the grammar raises InvalidOperation (ConversionSyntax).
DecimalFromStr(text) ==
  LET s    == lower(strip(text))
      sg   == SignOf(s)
      body == Unsigned(s)
      ePos == IndexOf(body, "e")
      mant == IF ePos = 0 THEN body ELSE SubSeq(body, 1, ePos - 1)
      expT == IF ePos = 0 THEN <<>> ELSE SubSeq(body, ePos + 1, Len(body))
      expD == Unsigned(expT)
      expOK == ePos = 0 \/ (expD # <<>> /\ AllDigits(expD))
      expV == IF ePos = 0 \/ ~expOK THEN 0
              ELSE IF SignOf(expT) = 1 THEN 0 - DigitsToInt(expD)
              ELSE DigitsToInt(expD)
      dot  == IndexOf(mant, ".")
      ip   == IF dot = 0 THEN mant ELSE SubSeq(mant, 1, dot - 1)
      fp   == IF dot = 0 THEN <<>> ELSE SubSeq(mant, dot + 1, Len(mant))
  IN  IF body \in {<<"i", "n", "f">>, <<"i", "n", "f", "i", "n", "i", "t", "y">>}
        THEN Dec("inf", sg, 0, 0)
      ELSE IF body = <<"n", "a", "n">> THEN Dec("nan", sg, 0, 0)
      ELSE IF body = <<"s", "n", "a", "n">> THEN Dec("snan", sg, 0, 0)
      ELSE IF AllDigits(ip) /\ AllDigits(fp) /\ (ip # <<>> \/ fp # <<>>) /\ expOK
        THEN Dec("fin", sg, DigitsToInt(ip \o fp), expV - Len(fp))
      ELSE Raised

\* Decimal._rescale(exp, ROUND_HALF_UP) of a finite value
Rescale(d, e) ==
  IF d.coef = 0 THEN Dec("fin", d.sign, 0, e)
  ELSE IF e <= d.exp THEN Dec("fin", d.sign, d.coef * Pow10(d.exp - e), e)
  ELSE LET unit == Pow10(e - d.exp)
           q    == d.coef \div unit
           r    == d.coef % unit
       IN  Dec("fin", d.sign, IF 2 * r >= unit THEN q + 1 ELSE q, e)

\* Decimal._fix: a finite result is rounded to PREC digits (ROUND_HALF_EVEN)
FixPrec(d) ==
  IF d.kind # "fin" \/ NumDigits(d.coef) <= PREC THEN d
  ELSE LET k    == NumDigits(d.coef) - PREC
           unit == Pow10(k)
           q    == d.coef \div unit
           r    == d.coef % unit
           up   == 2 * r > unit \/ (2 * r = unit /\ q % 2 = 1)
       IN  Dec("fin", d.sign, IF up THEN q + 1 ELSE q, d.exp + k)

\* Decimal.__add__ (the += of line 212)
DecAdd(a, b) ==
  IF a.kind = "snan" \/ b.kind = "snan" THEN Raised
  ELSE IF a.kind = "nan" THEN a
  ELSE IF b.kind = "nan" THEN b
  ELSE IF a.kind = "inf"
    THEN IF b.kind = "inf" /\ a.sign # b.sign THEN Raised ELSE a
  ELSE IF b.kind = "inf" THEN b
  ELSE LET e == Min(a.exp, b.exp)
       IN  IF a.coef = 0 /\ b.coef = 0
             THEN Dec("fin", Min(a.sign, b.sign), 0, e)
           ELSE IF a.coef = 0
             THEN FixPrec(Rescale(b, Max(e, b.exp - PREC - 1)))
           ELSE IF b.coef = 0
             THEN FixPrec(Rescale(a, Max(e, a.exp - PREC - 1)))
           ELSE LET ca == a.coef * Pow10(a.exp - e)
                    cb == b.coef * Pow10(b.exp - e)
                    sa == IF a.sign = 1 THEN 0 - ca ELSE ca
                    sb == IF b.sign = 1 THEN 0 - cb ELSE cb
                    t  == sa + sb
                IN  IF t = 0 THEN Dec("fin", 0, 0, e)
                    ELSE IF t < 0 THEN FixPrec(Dec("fin", 1, 0 - t, e))
                    ELSE FixPrec(Dec("fin", 0, t, e))

\* the exponent of Decimal(10) ** -precision (line 223): 1E-p for p > 0, and
\* the integer 10 ** |p| (exponent 0) otherwise
QuantumExp(p) == IF p > 0 THEN 0 - p ELSE 0

\* Decimal.quantize(Decimal(10) ** -p, rounding=ROUND_HALF_UP) (lines 222-225)
Quantize(d, p) ==
  IF d.kind = "snan" THEN Raised
  ELSE IF d.kind = "nan" THEN d
  ELSE IF d.kind = "inf" THEN Raised
  ELSE IF d.coef = 0 THEN Dec("fin", d.sign, 0, QuantumExp(p))
  ELSE IF d.exp + NumDigits(d.coef) - QuantumExp(p) > PREC THEN Raised
  ELSE LET r == Rescale(d, QuantumExp(p))
       IN  IF NumDigits(r.coef) > PREC THEN Raised ELSE r


(***************************************************************************)
(* NumberValidator (lines 50-94).  A validation outcome is the tuple       *)
(* (is_valid, result_or_error_message, number_type) as a record: num is    *)
(* the Decimal of a valid outcome, msg the message of an invalid one.      *)
(***************************************************************************)
Outcome(valid, d, m, t) == [ok |-> valid, num |-> d, msg |-> m, ty |-> t]

\* the texts of line 70's list ['nan', 'inf', '-inf']
Reserved == {<<"n", "a", "n">>, <<"i", "n", "f">>, <<"-", "i", "n", "f">>}

\* lines 75-81 without the test for an exponent
DetectType_NoExponent(value_clean) ==
  IF ~Contains(value_clean, ".") THEN "integer" ELSE "decimal"

\* lines 75-81: the NumberType of a text that parsed
DetectType(value_clean) ==
  IF ~Contains(value_clean, ".") /\ ~Contains(lower(value_clean), "e")
    THEN "integer"
  ELSE IF Contains(lower(value_clean), "e") THEN "float"
  ELSE "decimal"

\* lines 66-87 with the message of line 86 built from the untrimmed text
ParseOutcome_RawMessage(value) ==
  LET value_clean == strip(value)
      num         == DecimalFromStr(value_clean)
      invalid     == Outcome(FALSE, NoneDec,
                             <<"Invalid number: ">> \o value, "None")
  IN  IF value_clean = <<>> \/ lower(value_clean) \in Reserved THEN invalid
      ELSE IF num = Raised THEN invalid
      ELSE Outcome(TRUE, num, <<>>, DetectType(value_clean))

\* lines 66-87: the outcome computed on a cache miss
ParseOutcome(value) ==
  LET value_clean == strip(value)
      num         == DecimalFromStr(value_clean)
      invalid     == Outcome(FALSE, NoneDec,
                             <<"Invalid number: ">> \o value_clean, "None")
  IN  IF value_clean = <<>> \/ lower(value_clean) \in Reserved THEN invalid
      ELSE IF num = Raised THEN invalid
      ELSE Outcome(TRUE, num, <<>>, DetectType(value_clean))

EmptyCache == [k \in {} |-> Outcome(FALSE, NoneDec, <<>>, "None")]

\* lines 89-93 evicting one entry of a full cache instead of clearing it
CacheStore_EvictOne(c, cache_key, result) ==
  LET victim == CHOOSE k \in DOMAIN c : TRUE
      kept   == IF Cardinality(DOMAIN c) >= MAX_CACHE_SIZE
                  THEN [k \in DOMAIN c \ {victim} |-> c[k]]
                ELSE c
  IN  (cache_key :> result) @@ kept

\* lines 89-93: the cache after a miss stored `result` under `cache_key`
CacheStore(c, cache_key, result) ==
  LET kept == IF Cardinality(DOMAIN c) >= MAX_CACHE_SIZE THEN EmptyCache ELSE c
  IN  (cache_key :> result) @@ kept

\* validate with lines 89-93 run on a cache hit as well
Validate_StoreOnHit(c, value) ==
  LET cache_key == strip(value)
  IN  IF cache_key \in DOMAIN c
        THEN [result |-> c[cache_key],
              cache  |-> CacheStore(c, cache_key, c[cache_key])]
      ELSE [result |-> ParseOutcome(value),
            cache  |-> CacheStore(c, cache_key, ParseOutcome(value))]

\* validate returning a cached tuple without its number type
Validate_HitLosesType(c, value) ==
  LET cache_key == strip(value)
  IN  IF cache_key \in DOMAIN c
        THEN [result |-> [c[cache_key] EXCEPT !.ty = "None"], cache |-> c]
      ELSE [result |-> ParseOutcome(value),
            cache  |-> CacheStore(c, cache_key, ParseOutcome(value))]

\* NumberValidator.validate (lines 56-94): the outcome returned and the cache
\* it leaves
Validate(c, value) ==
  LET cache_key == strip(value)
  IN  IF cache_key \in DOMAIN c
        THEN [result |-> c[cache_key], cache |-> c]
      ELSE [result |-> ParseOutcome(value),
            cache  |-> CacheStore(c, cache_key, ParseOutcome(value))]


(***************************************************************************)
(* Inputs: the tokens and list elements the sources are built from.        *)
(***************************************************************************)
StrEl(t) == [ty |-> "str", s |-> t, n |-> 0]

IntEl(k) == [ty |-> "int", s |-> <<>>, n |-> k]

\* "1.005" (a decimal point), " 2 " (an integer, padded), "abc" (no number),
\* "inf" (reserved), "Infinity" (accepted by Decimal, not reserved)
Pool ==
  { <<"1", ".", "0", "0", "5">>, <<" ", "2", " ">>, <<"a", "b", "c">>,
    <<"i", "n", "f">>, <<"I", "n", "f", "i", "n", "i", "t", "y">> }

\* the elements of a list handed to add_numbers: strings, and the int 2
Elements == {StrEl(t) : t \in Pool} \cup {IntEl(2)}

ElementLists == UNION {[1..k -> Elements] : k \in 0..MaxLen}

\* the tokens another InputSource yields
OtherPool == { <<"1", ".", "0", "0", "5">>, <<"a", "b", "c">> }

TokenLists == UNION {[1..k -> {StrEl(t) : t \in OtherPool}] : k \in 0..MaxLen}

Paths == { <<"d", ".", "c", "s", "v">>, <<"d", ".", "T", "X", "T">>,
           <<"d", ".", "d", "a", "t">> }

(***************************************************************************)
(* Sources (lines 97-167).  One record shape serves the three kinds; a     *)
(* field a kind does not use keeps its default.                            *)
(*   ListSource : is_seq (numbers is a list or tuple), numbers             *)
(*   FileSource : path, exists, size, vanishes (the file is removed        *)
(*                between exists() and stat()), open_fails, and rows (the  *)
(*                records of the file, each a sequence of cells),          *)
(*                column_index, skip_header                                *)
(*   InputSource: any other implementation of the two-method contract:     *)
(*                v_outcome is what validate_source does ("ok", "fail",    *)
(*                "raise"), numbers the tokens read yields, ending how     *)
(*                read ends after them ("StopIteration" or the exception   *)
(*                it raises)                                               *)
(***************************************************************************)
Source(k, seq, nums, p, ex, sz, van, of, vo, en, rs, ci, sh) ==
  [kind |-> k, is_seq |-> seq, numbers |-> nums, path |-> p, exists |-> ex,
   size |-> sz, vanishes |-> van, open_fails |-> of, v_outcome |-> vo,
   ending |-> en, rows |-> rs, column_index |-> ci, skip_header |-> sh]

NoSource ==
  Source("None", FALSE, <<>>, <<>>, FALSE, 0, FALSE, FALSE, "ok",
         "StopIteration", <<>>, 0, TRUE)

ListSource(nums, seq) ==
  Source("ListSource", seq, nums, <<>>, FALSE, 0, FALSE, FALSE, "ok",
         "StopIteration", <<>>, 0, TRUE)

\* a FileSource with the defaults of line 132 (column_index=0,
\* skip_header=True)
FileSource(p, ex, sz, van, of) ==
  Source("FileSource", FALSE, <<>>, p, ex, sz, van, of, "ok", "StopIteration",
         <<>>, 0, TRUE)

\* FileSource(filepath, column_index, skip_header) (line 132, and line 282)
\* on a file that is there, holds the records rs and can be opened
CsvSource(p, rs, ci, sh) ==
  Source("FileSource", FALSE, <<>>, p, TRUE, 5, FALSE, FALSE, "ok",
         "StopIteration", rs, ci, sh)

OtherSource(vo, toks, en) ==
  Source("InputSource", FALSE, toks, <<>>, FALSE, 0, FALSE, FALSE, vo, en,
         <<>>, 0, TRUE)

ListSources ==
  {ListSource(nums, TRUE) : nums \in ElementLists} \cup {ListSource(<<>>, FALSE)}

\* the file of the example (header a,b; records 1,10 and 2,20), and a file
\* with a record that has no second column and one whose second cell is blank
FileContents ==
  { << <<<<"a">>, <<"b">>>>, <<<<"1">>, <<"1", "0">>>>,
       <<<<"2">>, <<"2", "0">>>> >>,
    << <<<<"a">>, <<"b">>>>, <<<<"1">>>>, <<<<"2">>, <<" ">>>>,
       <<<<"3">>, <<" ", "7">>>> >> }

FileSources ==
  {FileSource(p, TRUE, sz, van, of) :
     p \in Paths, sz \in {0, 5}, van \in BOOLEAN, of \in BOOLEAN}
  \cup {FileSource(p, FALSE, 0, FALSE, TRUE) : p \in Paths}
  \cup {CsvSource(<<"d", ".", "c", "s", "v">>, rs, ci, sh) :
          rs \in FileContents, ci \in {0, 1}, sh \in BOOLEAN}

Endings == {"StopIteration", "TimeoutError", "RuntimeError"}

OtherSources ==
  {OtherSource("ok", toks, en) : toks \in TokenLists, en \in Endings}
  \cup {OtherSource(vo, <<>>, "StopIteration") : vo \in {"fail", "raise"}}

Sources == ListSources \cup FileSources \cup OtherSources

\* str(num) of line 126
StrOf(el) == IF el.ty = "int" THEN IntToStr(el.n) ELSE el.s

\* an exception: type(e).__name__ and str(e)
Exc(k, d) == [kind |-> k, desc |-> d]

NoExc == Exc("None", <<>>)

\* what a call of validate_source or a next() of read's generator does
Returns(valid, m) == [how |-> "return", ok |-> valid, msg |-> m, exc |-> NoExc]

Raises(e) == [how |-> "raise", ok |-> FALSE, msg |-> <<>>, exc |-> e]

Yields(v) == [how |-> "yield", ok |-> TRUE, msg |-> v, exc |-> NoExc]

Stops == [how |-> "stop", ok |-> TRUE, msg |-> <<>>, exc |-> NoExc]

RECURSIVE LastIndexOf(_, _)
LastIndexOf(s, c) ==
  IF s = <<>> THEN 0
  ELSE IF s[Len(s)] = c THEN Len(s)
  ELSE LastIndexOf(SubSeq(s, 1, Len(s) - 1), c)

\* Path.suffix of a one-component path
Suffix(p) ==
  IF LastIndexOf(p, ".") <= 1 THEN <<>>
  ELSE SubSeq(p, LastIndexOf(p, "."), Len(p))

\* ListSource.validate_source without the empty check of lines 120-121
ListValidateSource_NoEmptyCheck(src) ==
  IF ~src.is_seq THEN Returns(FALSE, <<"Input must be a list or tuple">>)
  ELSE Returns(TRUE, <<"Valid">>)

\* ListSource.validate_source (lines 117-122)
ListValidateSource(src) ==
  IF ~src.is_seq THEN Returns(FALSE, <<"Input must be a list or tuple">>)
  ELSE IF src.numbers = <<>> THEN Returns(FALSE, <<"List is empty">>)
  ELSE Returns(TRUE, <<"Valid">>)

\* FileSource.validate_source (lines 137-144); stat() raises when the file is
\* gone by then
FileValidateSource(src) ==
  IF ~src.exists THEN Returns(FALSE, <<"File not found: ">> \o src.path)
  ELSE IF lower(Suffix(src.path)) \notin
            {<<".", "c", "s", "v">>, <<".", "t", "x", "t">>}
    THEN Returns(FALSE, <<"Only CSV and TXT files supported">>)
  ELSE IF src.vanishes
    THEN Raises(Exc("FileNotFoundError",
                    <<"[Errno 2] No such file or directory: '">> \o src.path
                      \o <<"'">>))
  ELSE IF ~(src.size > 0) THEN Returns(FALSE, <<"File is empty">>)
  ELSE Returns(TRUE, <<"Valid">>)

\* validate_source of another InputSource (lines 105-108): any of the three
OtherValidateSource(src) ==
  IF src.v_outcome = "raise" THEN Raises(Exc("RuntimeError", <<"unavailable">>))
  ELSE IF src.v_outcome = "fail" THEN Returns(FALSE, <<"Source unavailable">>)
  ELSE Returns(TRUE, <<"Valid">>)

\* source.validate_source() of line 185
ValidateSource(src) ==
  IF src.kind = "ListSource" THEN ListValidateSource(src)
  ELSE IF src.kind = "FileSource" THEN FileValidateSource(src)
  ELSE OtherValidateSource(src)

\* ListSource.read (lines 124-126): the next() after n items were yielded
ListRead(src, n) ==
  IF n < Len(src.numbers) THEN Yields(StrOf(src.numbers[n + 1])) ELSE Stops

\* FileSource.read (lines 146-167): the first next() opens the file (an
\* IOError is logged and re-raised) and then evaluates csv.reader(f); the
\* module never imports csv (lines 1-9), so that raises NameError
FileRead(src, n) ==
  IF src.open_fails
    THEN Raises(Exc("FileNotFoundError",
                    <<"[Errno 2] No such file or directory: '">> \o src.path
                      \o <<"'">>))
  ELSE Raises(Exc("NameError", <<"name 'csv' is not defined">>))

\* read of another InputSource (lines 100-103): yields its tokens, then ends
\* or raises
OtherRead(src, n) ==
  IF n < Len(src.numbers) THEN Yields(StrOf(src.numbers[n + 1]))
  ELSE IF src.ending = "StopIteration" THEN Stops
  ELSE IF src.ending = "TimeoutError"
    THEN Raises(Exc("TimeoutError", <<"timed out">>))
  ELSE Raises(Exc(src.ending, <<"read failed">>))

\* the next() that the for loop of line 203 makes on source.read()
ReadNext(src, n) ==
  IF src.kind = "ListSource" THEN ListRead(src, n)
  ELSE IF src.kind = "FileSource" THEN FileRead(src, n)
  ELSE OtherRead(src, n)


(***************************************************************************)
(* OperationResult (lines 37-47) and the pieces of add_from_source         *)
(***************************************************************************)
\* number_types: None (the dataclass default) or the per-type tally
NoTypes == [none |-> TRUE, integer |-> 0, float |-> 0, decimal |-> 0]

\* line 200
ZeroTypes == [none |-> FALSE, integer |-> 0, float |-> 0, decimal |-> 0]

OperationResult(st, res, em, p, f, et, nt, src) ==
  [status |-> st, result |-> res, error_message |-> em, processed_count |-> p,
   failed_count |-> f, execution_time |-> et, number_types |-> nt,
   source |-> src]

\* no OperationResult: the call has not returned
NoResult == OperationResult("None", NoneDec, <<>>, 0, 0, 0, NoTypes, "None")

\* a failure result that carries the (zero) tally of line 200
FailureResult_WithTally(em, et, src) ==
  OperationResult("failure", NoneDec, em, 0, 0, et, ZeroTypes, src.kind)

\* the OperationResult of lines 188-194, 258-264 and 267-273: the counts, the
\* tally and the total keep their defaults
FailureResult(em, et, src) ==
  OperationResult("failure", NoneDec, em, 0, 0, et, NoTypes, src.kind)

\* line 205 with the comparison reversed
TimedOut_Reversed(now, limit) == now < limit

\* line 205 without the check
TimedOut_Never(now, limit) == FALSE

\* line 205 (the clock reads whole seconds here)
TimedOut(now, limit) == now > limit

\* line 206: TimeoutError(f"Operation timeout after {self.timeout}s"), the
\* timeout being a float with no fractional part
TimeoutMessage(limit) ==
  <<"Operation timeout after ">> \o IntToStr(limit) \o <<".", "0">> \o <<"s">>

\* line 270 without type(e).__name__
HandlerMessage_NoKind(e) == e.desc

\* lines 261 and 270: the message of the handler that caught e
HandlerMessage(e) ==
  IF e.kind = "TimeoutError" THEN e.desc
  ELSE <<e.kind>> \o <<": ">> \o e.desc

\* str(e) of the InvalidOperation an operation of Decimal raises
InvalidOperationExc ==
  Exc("InvalidOperation", <<"[<class 'decimal.InvalidOperation'>]">>)

\* Status without the processed == 0 branch of lines 230-232
Status_NoFailureBranch(p, f) == IF f = 0 THEN "success" ELSE "partial"

\* lines 227-234
Status(p, f) ==
  IF f = 0 THEN "success" ELSE IF p = 0 THEN "failure" ELSE "partial"

\* line 232 without the reset of the total
FinalTotal_NoReset(st, rounded) == rounded

\* line 232: the total of a result whose status is st
FinalTotal(st, rounded) == IF st = "failure" THEN NoneDec ELSE rounded

\* lines 211-213: processed after a token whose validity is is_valid
Processed(p, is_valid) == IF is_valid THEN p + 1 ELSE p

\* lines 216-217 without the increment
Failed_NoIncrement(f, is_valid) == f

\* lines 216-217: failed after a token whose validity is is_valid
Failed(f, is_valid) == IF is_valid THEN f ELSE f + 1

\* line 215
CountType(tc, t) ==
  IF t = "None" THEN tc ELSE [tc EXCEPT ![t] = @ + 1]

\* line 218
IndexedError(i, m) == <<"Index ">> \o IntToStr(i) \o <<": ">> \o m

RECURSIVE Join(_)
Join(ms) ==
  IF ms = <<>> THEN <<>>
  ELSE IF Len(ms) = 1 THEN ms[1]
  ELSE ms[1] \o <<"; ">> \o Join(Tail(ms))

\* line 242 without the [:5]
ErrorSummary_All(errs) == Join(errs)

\* line 242: "; ".join(errors[:5]) if errors else ""
ErrorSummary(errs) == Join(SubSeq(errs, 1, Min(5, Len(errs))))


(***************************************************************************)
(* State.                                                                  *)
(*   precision, timeout, operations_count : the AdditionService (173-176)  *)
(*   cache  : NumberValidator._cache, shared by every call of the process  *)
(*   pc     : where the current call stands: "idle" (no call in progress), *)
(*            "validate" (start_time taken, line 185 next), "read" (the    *)
(*            for loop of line 203 asks the source for its next item),     *)
(*            "token" (an item was yielded, line 205 next), "finalize"     *)
(*            (the source is exhausted, line 221 next), "returned" (an     *)
(*            OperationResult was returned), "raised" (an exception left   *)
(*            the call)                                                    *)
(*   source : the source of the current call                               *)
(*   elapsed: time.time() - start_time, in whole seconds                   *)
(*   total, processed, failed, errors, type_counts, value : the locals of  *)
(*            lines 196-203                                                *)
(*   result : the OperationResult returned; escaped : the exception that   *)
(*            left the call                                                *)
(*   yielded, reads, validations, expired_after, origin : what the call    *)
(*            did so far: the tokens read yielded, the number of next()    *)
(*            made on source.read(), the number of calls of validate, the  *)
(*            number of tokens that had been yielded when the clock passed *)
(*            the timeout (-1: it has not), and the line whose return or   *)
(*            raise ended the call ("source_invalid": 188, "check": 206,   *)
(*            "read": 203, "add": 212, "quantize": 222, "complete": 254,   *)
(*            "validate_source": 185)                                      *)
(*   arg, outcome : the argument and the returned tuple of the last direct *)
(*            call of NumberValidator.validate (a classmethod, callable    *)
(*            without a service)                                           *)
(*   hit, again, first : what the direct calls did so far: the last one    *)
(*            found its key in the cache (line 63), its argument had been  *)
(*            validated before, and the outcome each argument got the      *)
(*            first time it was validated                                  *)
(***************************************************************************)
VARIABLES precision, timeout, operations_count, cache, pc, source,
          elapsed, total, processed, failed, errors, type_counts, value,
          result, escaped, yielded, reads, validations, expired_after, origin,
          arg, outcome, hit, again, first

vars == <<precision, timeout, operations_count, cache, pc, source,
          elapsed, total, processed, failed, errors, type_counts, value,
          result, escaped, yielded, reads, validations, expired_after,
          origin, arg, outcome, hit, again, first>>

history == <<yielded, reads, validations, expired_after>>

service == <<precision, timeout>>

locals == <<total, processed, failed, errors, type_counts, value>>

direct == <<arg, outcome, hit, again, first>>

\* no direct call of validate was made yet
NoArg == <<"None">>

NoOutcome == Outcome(FALSE, NoneDec, <<>>, "unset")

\* the precisions and timeouts (whole seconds) a service is constructed with
Precisions == {0, 2}

Timeouts == {1}

Init ==
  /\ precision \in Precisions
  /\ timeout \in Timeouts
  /\ operations_count = 0
  /\ cache = EmptyCache
  /\ pc = "idle"
  /\ source = NoSource
  /\ elapsed = 0
  /\ total = NoneDec
  /\ processed = 0
  /\ failed = 0
  /\ errors = <<>>
  /\ type_counts = NoTypes
  /\ value = <<>>
  /\ result = NoResult
  /\ escaped = NoExc
  /\ yielded = <<>>
  /\ reads = 0
  /\ validations = 0
  /\ expired_after = -1
  /\ origin = "None"
  /\ arg = NoArg
  /\ outcome = NoOutcome
  /\ hit = FALSE
  /\ again = FALSE
  /\ first = EmptyCache

\* add_from_source(src) is called (line 182 takes start_time); add_numbers
\* and add_from_csv (lines 275-283) are this call with a ListSource and a
\* FileSource
Call(src) ==
  /\ pc = "idle"
  /\ operations_count < MaxOperations
  /\ pc' = "validate"
  /\ source' = src
  /\ elapsed' = 0
  /\ total' = NoneDec
  /\ processed' = 0
  /\ failed' = 0
  /\ errors' = <<>>
  /\ type_counts' = NoTypes
  /\ value' = <<>>
  /\ result' = NoResult
  /\ escaped' = NoExc
  /\ yielded' = <<>>
  /\ reads' = 0
  /\ validations' = 0
  /\ expired_after' = -1
  /\ origin' = "None"
  /\ UNCHANGED <<service, operations_count, cache, direct>>

\* time passes while the call waits for read to yield its next item or to
\* end (time spent elsewhere in the call shows at the same checks); the clock
\* is followed until it has passed the timeout, which is all line 205 sees
Tick ==
  /\ pc = "read"
  /\ elapsed <= timeout
  /\ elapsed' = elapsed + 1
  /\ expired_after' = IF expired_after = -1 /\ elapsed + 1 > timeout
                        THEN Len(yielded) ELSE expired_after
  /\ UNCHANGED <<service, operations_count, cache, pc, source, locals,
                 result, escaped, yielded, reads, validations, origin,
                 direct>>

\* the call returns r (origin names the return statement)
Return(r, from) ==
  /\ pc' = "returned"
  /\ result' = r
  /\ origin' = from
  /\ UNCHANGED escaped

\* lines 184-200: the source is validated; an exception of validate_source
\* leaves the call (line 185 is outside the try), a failure returns at line
\* 188, and otherwise the locals are initialised
ValidateSourceStep ==
  /\ pc = "validate"
  /\ LET v == ValidateSource(source)
     IN  \/ /\ v.how = "raise"
            /\ pc' = "raised"
            /\ escaped' = v.exc
            /\ origin' = "validate_source"
            /\ UNCHANGED <<result, locals>>
         \/ /\ v.how = "return" /\ ~v.ok
            /\ Return(FailureResult(v.msg, elapsed, source), "source_invalid")
            /\ UNCHANGED locals
         \/ /\ v.how = "return" /\ v.ok
            /\ pc' = "read"
            /\ total' = Dec("fin", 0, 0, 0)
            /\ processed' = 0
            /\ failed' = 0
            /\ errors' = <<>>
            /\ type_counts' = ZeroTypes
            /\ UNCHANGED <<value, result, escaped, origin>>
  /\ UNCHANGED <<service, operations_count, cache, source, elapsed, history,
                 direct>>

\* line 203: the loop takes the next item of source.read(); an exception of
\* read is caught at line 256 (TimeoutError) or 265 (any other)
ReadStep ==
  /\ pc = "read"
  /\ reads' = reads + 1
  /\ LET r == ReadNext(source, Len(yielded))
     IN  \/ /\ r.how = "yield"
            /\ pc' = "token"
            /\ value' = r.msg
            /\ yielded' = Append(yielded, r.msg)
            /\ UNCHANGED <<result, escaped, origin>>
         \/ /\ r.how = "stop"
            /\ pc' = "finalize"
            /\ UNCHANGED <<value, yielded, result, escaped, origin>>
         \/ /\ r.how = "raise"
            /\ Return(FailureResult(HandlerMessage(r.exc), elapsed, source),
                      "read")
            /\ UNCHANGED <<value, yielded>>
  /\ UNCHANGED <<service, operations_count, cache, source, elapsed,
                 total, processed, failed, errors, type_counts, validations,
                 expired_after, direct>>

\* lines 204-218 for the item just yielded: the timeout check, then validate
\* and the update of the total and the counts
TokenStep ==
  /\ pc = "token"
  /\ IF TimedOut(elapsed, timeout)
       THEN /\ Return(FailureResult(
                        HandlerMessage(Exc("TimeoutError",
                                           TimeoutMessage(timeout))),
                        elapsed, source), "check")
            /\ UNCHANGED <<cache, validations, locals>>
       ELSE LET v   == Validate(cache, value)
                sum == DecAdd(total, v.result.num)
            IN  /\ cache' = v.cache
                /\ validations' = validations + 1
                /\ IF v.result.ok
                     THEN IF sum = Raised
                            THEN /\ Return(FailureResult(
                                             HandlerMessage(InvalidOperationExc),
                                             elapsed, source), "add")
                                 /\ UNCHANGED locals
                            ELSE /\ pc' = "read"
                                 /\ total' = sum
                                 /\ processed' = Processed(processed, TRUE)
                                 /\ failed' = Failed(failed, TRUE)
                                 /\ type_counts' =
                                      CountType(type_counts, v.result.ty)
                                 /\ UNCHANGED <<errors, value, result, escaped,
                                                origin>>
                     ELSE /\ pc' = "read"
                          /\ processed' = Processed(processed, FALSE)
                          /\ failed' = Failed(failed, FALSE)
                          /\ errors' =
                               Append(errors,
                                      IndexedError(Len(yielded) - 1,
                                                   v.result.msg))
                          /\ UNCHANGED <<total, type_counts, value, result,
                                         escaped, origin>>
  /\ UNCHANGED <<service, operations_count, source, elapsed, yielded, reads,
                 expired_after, direct>>

\* lines 220-254: the source is exhausted; the total is rounded, the status
\* determined and the result returned.  An InvalidOperation of quantize is
\* caught at line 265.
FinalizeStep ==
  /\ pc = "finalize"
  /\ LET rounded == Quantize(total, precision)
         st      == Status(processed, failed)
     IN  IF rounded = Raised
           THEN /\ Return(FailureResult(HandlerMessage(InvalidOperationExc),
                                        elapsed, source), "quantize")
                /\ UNCHANGED operations_count
           ELSE /\ Return(OperationResult(st, FinalTotal(st, rounded),
                                          ErrorSummary(errors), processed,
                                          failed, elapsed, type_counts,
                                          source.kind), "complete")
                /\ operations_count' = operations_count + 1
  /\ UNCHANGED <<service, cache, source, elapsed, locals, history, direct>>

\* the caller has taken the OperationResult (or the exception): the service
\* is idle again, and the locals of the call are gone
Done ==
  /\ pc \in {"returned", "raised"}
  /\ pc' = "idle"
  /\ source' = NoSource
  /\ elapsed' = 0
  /\ total' = NoneDec
  /\ processed' = 0
  /\ failed' = 0
  /\ errors' = <<>>
  /\ type_counts' = NoTypes
  /\ value' = <<>>
  /\ result' = NoResult
  /\ escaped' = NoExc
  /\ yielded' = <<>>
  /\ reads' = 0
  /\ validations' = 0
  /\ expired_after' = -1
  /\ origin' = "None"
  /\ UNCHANGED <<service, operations_count, cache, direct>>

Next ==
  \/ \E src \in Sources : Call(src)
  \/ Done
  \/ Tick
  \/ ValidateSourceStep
  \/ ReadStep
  \/ TokenStep
  \/ FinalizeStep

Spec == Init /\ [][Next]_vars

(***************************************************************************)
(* add_numbers on long lists: LongLen elements, each "abc" or " 2 ".       *)
(***************************************************************************)
LongSources ==
  {ListSource(nums, TRUE) :
     nums \in [1..LongLen -> {StrEl(<<"a", "b", "c">>), StrEl(<<" ", "2", " ">>)}]}

LongNext ==
  \/ \E src \in LongSources : Call(src)
  \/ Done
  \/ Tick
  \/ ValidateSourceStep
  \/ ReadStep
  \/ TokenStep
  \/ FinalizeStep

LongSpec == Init /\ [][LongNext]_vars

(***************************************************************************)
(* add_from_source on streams that mix the number types: up to MaxLen      *)
(* tokens, each "1e1" (an exponent), "1.005" (a decimal point), " 2 " (an  *)
(* integer), "Infinity" or "abc".                                          *)
(***************************************************************************)
TypePool ==
  { <<"1", "e", "1">>, <<"1", ".", "0", "0", "5">>, <<" ", "2", " ">>,
    <<"I", "n", "f", "i", "n", "i", "t", "y">>, <<"a", "b", "c">> }

TypeSources ==
  {OtherSource("ok", toks, "StopIteration") :
     toks \in UNION {[1..k -> {StrEl(t) : t \in TypePool}] : k \in 0..MaxLen}}

TypeNext ==
  \/ \E src \in TypeSources : Call(src)
  \/ Done
  \/ Tick
  \/ ValidateSourceStep
  \/ ReadStep
  \/ TokenStep
  \/ FinalizeStep

TypeSpec == Init /\ [][TypeNext]_vars

(***************************************************************************)
(* NumberValidator.validate called directly, any number of times, on the   *)
(* one cache of the process.                                               *)
(***************************************************************************)
\* the arguments of the direct calls: two spellings of 2 and of "abc" that
\* differ in surrounding whitespace only, a decimal point, an exponent, and
\* the long spelling of infinity
ValidatePool ==
  { <<"1", ".", "0", "0", "5">>, <<" ", "2", " ">>, <<"2">>,
    <<"a", "b", "c">>, <<" ", "a", "b", "c">>, <<"1", "e", "1">>,
    <<"I", "n", "f", "i", "n", "i", "t", "y">> }

\* NumberValidator.validate(v) (lines 56-94)
ValidateCall(v) ==
  /\ pc = "idle"
  /\ LET r == Validate(cache, v)
     IN  /\ cache' = r.cache
         /\ outcome' = r.result
         /\ first' = IF v \in DOMAIN first THEN first
                      ELSE (v :> r.result) @@ first
  /\ arg' = v
  /\ hit' = (strip(v) \in DOMAIN cache)
  /\ again' = (v \in DOMAIN first)
  /\ UNCHANGED <<service, operations_count, pc, source, elapsed, locals,
                 result, escaped, history, origin>>

ValidatorNext == \E v \in ValidatePool : ValidateCall(v)

ValidatorSpec == Init /\ [][ValidatorNext]_vars


(***************************************************************************)
(* Properties.  The tokens of a source and the exact arithmetic they are   *)
(* compared with are computed here on integers (thousandths), apart from   *)
(* the Decimal operators above.                                            *)
(***************************************************************************)
\* the tokens the source of the current call yields if read runs to its end
Tokens(src) == [i \in 1..Len(src.numbers) |-> StrOf(src.numbers[i])]

\* the validator accepts the token
Accepted(tok) == ParseOutcome(tok).ok

\* a list handed to add_numbers: a non-empty list
IsList(src) == src.kind = "ListSource" /\ src.is_seq /\ src.numbers # <<>>

\* the value of an accepted token is a finite number
Finite(tok) == ParseOutcome(tok).num.kind = "fin"

\* the exact value of a finite token, in thousandths
Thousandths(tok) ==
  LET d == ParseOutcome(tok).num
      m == d.coef * Pow10(d.exp + 3)
  IN  IF d.sign = 1 THEN 0 - m ELSE m

\* the exact sum, in thousandths, of the accepted tokens of a sequence
RECURSIVE ExactSum(_)
ExactSum(toks) ==
  IF toks = <<>> THEN 0
  ELSE (IF Accepted(Head(toks)) THEN Thousandths(Head(toks)) ELSE 0)
       + ExactSum(Tail(toks))

Abs(n) == IF n < 0 THEN 0 - n ELSE n

\* d is the number of thousandths n rounded once, half up, to p fractional
\* digits
IsRounded(d, n, p) ==
  LET unit == Pow10(3 - p)
      q    == Abs(n) \div unit
      r    == Abs(n) % unit
      c    == IF 2 * r >= unit THEN q + 1 ELSE q
  IN  /\ d.kind = "fin"
      /\ d.exp = 0 - p
      /\ d.coef = c
      /\ (c # 0 => d.sign = (IF n < 0 THEN 1 ELSE 0))

NumAccepted(toks) == Cardinality({i \in 1..Len(toks) : Accepted(toks[i])})

\* C1 (as claimed): a non-empty list of N tokens the validator accepts, no
\* timeout occurring, gives Success with processed_count = N, failed_count = 0
\* and the exact sum rounded once, half up, to `precision` digits.
C1_AllAcceptedSucceeds ==
  (pc = "returned" /\ IsList(source) /\ origin # "check"
     /\ \A i \in 1..Len(source.numbers) : Accepted(Tokens(source)[i]))
  => /\ result.status = "success"
     /\ result.processed_count = Len(source.numbers)
     /\ result.failed_count = 0
     /\ (\A i \in 1..Len(source.numbers) : Finite(Tokens(source)[i]))
          => IsRounded(result.result, ExactSum(Tokens(source)), precision)

\* C2 (as claimed): a list with at least one accepted and at least one
\* rejected token, no timeout occurring, gives Partial and the rounded sum of
\* the accepted tokens only.
C2_MixedListPartial ==
  (pc = "returned" /\ IsList(source) /\ origin # "check"
     /\ NumAccepted(Tokens(source)) >= 1
     /\ NumAccepted(Tokens(source)) < Len(source.numbers))
  => /\ result.status = "partial"
     /\ result.result # NoneDec
     /\ (\A i \in 1..Len(source.numbers) :
           Accepted(Tokens(source)[i]) => Finite(Tokens(source)[i]))
          => IsRounded(result.result, ExactSum(Tokens(source)), precision)

\* C3 (as claimed): a non-empty list of N tokens, all rejected, gives Failure
\* with result absent, processed_count = 0 and failed_count = N.
C3_AllRejectedCounts ==
  (pc = "returned" /\ IsList(source) /\ NumAccepted(Tokens(source)) = 0)
  => /\ result.status = "failure"
     /\ result.result = NoneDec
     /\ result.processed_count = 0
     /\ result.failed_count = Len(source.numbers)

\* C3 (amended): a non-empty list of N tokens, all rejected, gives Failure
\* with result absent and processed_count = 0; failed_count = N when no
\* timeout occurs, and 0 when the timeout check aborts the call.
C3_AllRejectedFailure ==
  (pc = "returned" /\ IsList(source) /\ NumAccepted(Tokens(source)) = 0)
  => /\ result.status = "failure"
     /\ result.result = NoneDec
     /\ result.processed_count = 0
     /\ result.failed_count =
          (IF origin = "check" THEN 0 ELSE Len(source.numbers))

\* C3 witness: a list of two rejected tokens was summed to the end
C3_Witness ==
  /\ pc = "returned" /\ IsList(source) /\ NumAccepted(Tokens(source)) = 0
  /\ Len(source.numbers) = 2 /\ origin = "complete" /\ validations = 2


\* C4: in every OperationResult returned, on every path, the result value is
\* present exactly when the status is Success or Partial.
C4_ResultPresentIffSuccessOrPartial ==
  pc = "returned"
  => /\ result.status \in {"success", "partial", "failure"}
     /\ (result.result # NoneDec <=> result.status \in {"success", "partial"})

\* C4 witness: a stream of rejected tokens only ran to its end, where the
\* rounded total is reset to None
C4_Witness ==
  /\ pc = "returned" /\ origin = "complete" /\ result.status = "failure"
  /\ result.failed_count >= 1 /\ total.kind = "fin"

\* C5 (as claimed): in every OperationResult returned, Success implies
\* failed_count = 0 and processed_count >= 1, and processed_count = 0 implies
\* Failure with result absent, also for a source whose read yields nothing.
C5_SuccessNeedsProcessed ==
  pc = "returned"
  => /\ result.status = "success"
          => (result.failed_count = 0 /\ result.processed_count >= 1)
     /\ result.processed_count = 0
          => (result.status = "failure" /\ result.result = NoneDec)

\* C6 (as claimed): add_from_source never raises to its caller; an exception
\* of validate_source or read, a rejected token, a timeout and a failure of
\* the rounding all end in a returned OperationResult.
C6_NeverRaises == pc # "raised" /\ escaped = NoExc

\* the source is an empty list, a missing file, a zero-byte file
EmptyList(src) == src.kind = "ListSource" /\ src.is_seq /\ src.numbers = <<>>

MissingFile(src) == src.kind = "FileSource" /\ ~src.exists

ZeroByteFile(src) == src.kind = "FileSource" /\ src.exists /\ src.size = 0

\* the extension of the file is .csv or .txt, in any case
SupportedExtension(src) ==
  lower(Suffix(src.path)) \in {<<".", "c", "s", "v">>, <<".", "t", "x", "t">>}

\* validate_source comes before read, and a reported failure returns Failure
\* with the validation message, without any read or validation
SourceFailureReturns ==
  /\ (pc = "returned" /\ origin = "source_invalid")
       => /\ result.status = "failure"
          /\ result.result = NoneDec
          /\ result.error_message = ValidateSource(source).msg
          /\ reads = 0 /\ validations = 0 /\ yielded = <<>>
  /\ (pc = "returned" /\ ~ValidateSource(source).ok)
       => origin = "source_invalid"
  /\ reads > 0 => ValidateSource(source).ok
  /\ (pc = "returned" /\ EmptyList(source))
       => result.error_message = <<"List is empty">>
  /\ (pc = "returned" /\ MissingFile(source))
       => result.error_message = <<"File not found: ">> \o source.path

C8_TimeoutAbortsAtToken ==
  [][ /\ (pc = "token" /\ elapsed > timeout)
          => /\ pc' = "returned"
             /\ origin' = "check"
             /\ result' = FailureResult(TimeoutMessage(timeout), elapsed,
                                        source)
             /\ result'.result = NoneDec
             /\ validations' = validations
             /\ cache' = cache
      /\ validations' > validations
          => (pc = "token" /\ elapsed <= timeout
              /\ validations' = validations + 1)
    ]_vars

\* C8 witness: the timeout check aborted a call that had summed a token
C8_Witness ==
  /\ pc = "returned" /\ origin = "check" /\ processed >= 1
  /\ total.coef > 0 /\ result.result = NoneDec
  /\ validations = Len(yielded) - 1

\* C9 (as claimed): whenever the elapsed time passes the timeout while read
\* is still running (before the first token, between tokens, or after the
\* last yielded token), the call returns Failure with the timeout message.
\* Stated for the calls that yield a token and in which nothing else fails.
C9_BlockingAlwaysTimesOut ==
  (pc = "returned" /\ origin \in {"complete", "check"} /\ expired_after >= 0
     /\ yielded # <<>>)
  => /\ result.status = "failure"
     /\ result.error_message = TimeoutMessage(timeout)

\* C9 (amended): when the elapsed time passes the timeout before the first
\* token or between two tokens, the call returns Failure with the timeout
\* message at the next token read yields; when it passes only after the last
\* yielded token the timeout is not detected, and the call ends as it does
\* without it.
C9_TimeoutSeenAtNextToken ==
  (pc = "returned" /\ expired_after >= 0)
  => IF expired_after < Len(Tokens(source))
       THEN /\ origin = "check"
            /\ result.status = "failure"
            /\ result.error_message = TimeoutMessage(timeout)
            /\ Len(yielded) = expired_after + 1
       ELSE /\ origin \in {"complete", "read", "quantize"}
            /\ result.error_message # TimeoutMessage(timeout)
            /\ origin = "complete"
                 => result.status = Status(NumAccepted(yielded),
                                           Len(yielded) - NumAccepted(yielded))

\* C9 witness: the clock passed the timeout between the first and the second
\* token, and the call aborted at the second
C9_Witness ==
  /\ pc = "returned" /\ expired_after = 1 /\ Len(Tokens(source)) = 2
  /\ origin = "check" /\ Len(yielded) = 2

\* C10: a call that exhausts its source without aborting reports
\* processed_count + failed_count = the number of tokens read yielded.
C10_CountsSumToYielded ==
  (pc = "returned" /\ origin = "complete")
  => /\ result.processed_count + result.failed_count = Len(yielded)
     /\ yielded = Tokens(source)

\* C10 witness: a completed call with accepted and rejected tokens
C10_Witness ==
  /\ pc = "returned" /\ origin = "complete"
  /\ result.processed_count >= 1 /\ result.failed_count >= 1

\* the file can be validated and opened
ReadableFile(src) ==
  /\ src.kind = "FileSource" /\ src.exists /\ src.size > 0 /\ ~src.vanishes
  /\ ~src.open_fails /\ SupportedExtension(src)

\* the trimmed non-empty cells at column ci of the records rs, in order,
\* the records without that column being skipped
RECURSIVE ColumnCells(_, _)
ColumnCells(rs, ci) ==
  IF rs = <<>> THEN <<>>
  ELSE LET row == Head(rs)
       IN  (IF ci < Len(row) /\ strip(row[ci + 1]) # <<>>
              THEN <<strip(row[ci + 1])>> ELSE <<>>)
           \o ColumnCells(Tail(rs), ci)

\* the file of the example: header a,b and the records 1,10 and 2,20
ExampleRows ==
  << <<<<"a">>, <<"b">>>>, <<<<"1">>, <<"1", "0">>>>, <<<<"2">>, <<"2", "0">>>> >>

\* C13 (as claimed): a valid file read with skip_header=true yields the
\* trimmed non-empty cells at column_index of every record after the first,
\* in file order, and the call sums them: the example file with
\* column_index=1 at precision 0 yields "10", "20" and gives Success, 30.
C13_FileYieldsColumn ==
  (pc = "returned" /\ ReadableFile(source) /\ source.rows # <<>>
     /\ source.skip_header)
  => /\ origin = "complete"
     /\ yielded = ColumnCells(Tail(source.rows), source.column_index)
     /\ (source.rows = ExampleRows /\ source.column_index = 1
           /\ precision = 0)
          => /\ yielded = <<<<"1", "0">>, <<"2", "0">>>>
             /\ result.status = "success"
             /\ result.result = Dec("fin", 0, 30, 0)

\* the per-token error strings of a token sequence, in stream order: one for
\* each token the validator rejects, carrying its zero-based position
RECURSIVE ExpectedErrors(_, _)
ExpectedErrors(toks, n) ==
  IF n = 0 THEN <<>>
  ELSE ExpectedErrors(toks, n - 1)
       \o (IF Accepted(toks[n]) THEN <<>>
           ELSE << <<"Index ">> \o IntToStr(n - 1) \o <<": ">>
                     \o <<"Invalid number: ">> \o strip(toks[n]) >>)

\* C14: in a call that runs to completion, failed_count counts every invalid
\* token, and error_message is the first min(5, failed_count) per-token error
\* strings, in stream order, joined with "; " (empty when there are none),
\* each carrying the zero-based position of its token in the yielded sequence.
C14_ErrorMessageFirstFive ==
  (pc = "returned" /\ origin = "complete")
  => LET errs == ExpectedErrors(yielded, Len(yielded))
     IN  /\ result.failed_count = Len(errs)
         /\ result.error_message =
              Join(SubSeq(errs, 1, Min(5, result.failed_count)))
         /\ (errs = <<>> => result.error_message = <<>>)

\* C14 witness: a completed call with more than five invalid tokens and a
\* valid one among them
C14_Witness ==
  /\ pc = "returned" /\ origin = "complete"
  /\ result.failed_count > 5 /\ result.processed_count >= 1
  /\ Accepted(yielded[1])

\* C15: when read raises a failure other than a timeout after k >= 0 tokens
\* were summed, the call aborts there: it returns Failure with result absent
\* and a message made of the failure's kind and description, no further token
\* is read or validated, and the total accumulated so far is not returned.
C15_ReadFailureAborts ==
  [][ (pc = "read" /\ ReadNext(source, Len(yielded)).how = "raise"
         /\ ReadNext(source, Len(yielded)).exc.kind # "TimeoutError"
         /\ pc' # "read")
      => LET e == ReadNext(source, Len(yielded)).exc
         IN  /\ pc' = "returned"
             /\ result'.status = "failure"
             /\ result'.result = NoneDec
             /\ result'.error_message = <<e.kind, ": ">> \o e.desc
             /\ validations' = validations /\ yielded' = yielded
             /\ operations_count' = operations_count
    ]_vars

\* C15 witness: read raised after a token had been summed
C15_Witness ==
  /\ pc = "returned" /\ origin = "read" /\ source.ending = "RuntimeError"
  /\ processed >= 1 /\ total.coef > 0 /\ result.result = NoneDec

\* the token spells a non-finite value the decimal parser accepts
NonFinite(tok) == DecimalFromStr(tok).kind \in {"inf", "nan", "snan"}

NumNonFinite(toks) == Cardinality({i \in 1..Len(toks) : NonFinite(toks[i])})

\* C16 (as claimed): a token that denotes a non-finite value is counted as a
\* per-token failure and the call goes on; the running total is finite after
\* every token, and neither the accumulation nor the final rounding aborts
\* the call.
C16_NonFiniteIsTokenFailure ==
  /\ total.kind \in {"None", "fin"}
  /\ origin \notin {"add", "quantize"}
  /\ pc = "read" => failed >= NumNonFinite(yielded)

\* the type the rule of the claim gives a valid token: an exponent marker
\* makes it Float, a decimal point without one Decimal, neither Integer
ExponentMarker(tok) ==
  DecimalFromStr(tok).kind = "fin" /\ Contains(lower(strip(tok)), "e")

DecimalPoint(tok) ==
  DecimalFromStr(tok).kind = "fin" /\ Contains(strip(tok), ".")

TypeOf(tok) ==
  IF ExponentMarker(tok) THEN "float"
  ELSE IF DecimalPoint(tok) THEN "decimal"
  ELSE "integer"

NumOfType(toks, t) ==
  Cardinality({i \in 1..Len(toks) : Accepted(toks[i]) /\ TypeOf(toks[i]) = t})

\* C17: every valid token counts for exactly one type, the one the rule gives
\* it, and an invalid token for none: after every token the three type
\* counts are those of the valid tokens per type, and in every result of a
\* call that ran to completion they sum to processed_count.
C17_TypeCountsPartition ==
  /\ pc = "read"
       => \A t \in {"integer", "float", "decimal"} :
            type_counts[t] = NumOfType(yielded, t)
  /\ (pc = "returned" /\ origin = "complete")
       => /\ ~result.number_types.none
          /\ \A t \in {"integer", "float", "decimal"} :
               result.number_types[t] = NumOfType(yielded, t)
          /\ result.number_types.integer + result.number_types.float
               + result.number_types.decimal = result.processed_count

\* C17 witness: a completed call that summed an exponent token and a token
\* with a decimal point
C17_Witness ==
  /\ pc = "returned" /\ origin = "complete"
  /\ result.number_types.float = 1 /\ result.number_types.decimal = 1

\* C18: a result produced by an abort (the timeout check, or a failure of
\* read, of the accumulation or of the rounding) reports processed_count 0,
\* failed_count 0 and no type tally, whatever had been summed or rejected
\* before; the total and the collected errors are dropped as well.
C18_AbortDropsCounts ==
  (pc = "returned" /\ origin \in {"check", "read", "add", "quantize"})
  => /\ result.status = "failure"
     /\ result.processed_count = 0
     /\ result.failed_count = 0
     /\ result.number_types.none
     /\ result.result = NoneDec
     /\ errors # <<>> => result.error_message # ErrorSummary(errors)

\* C18 witness: a call aborted after it had summed a token and rejected one
C18_Witness ==
  /\ pc = "returned" /\ origin \in {"check", "read"}
  /\ processed = 1 /\ failed = 1 /\ errors # <<>>
  /\ result.processed_count = 0 /\ result.failed_count = 0

\* the locals of lines 196-200 after the loop of lines 203-218 took the first
\* n tokens of toks, each one parsed anew (no cache)
RECURSIVE Replay(_, _)
Replay(toks, n) ==
  IF n = 0
    THEN [total |-> Dec("fin", 0, 0, 0), processed |-> 0, failed |-> 0,
          errors |-> <<>>, type_counts |-> ZeroTypes]
  ELSE LET before == Replay(toks, n - 1)
           o      == ParseOutcome(toks[n])
       IN  IF o.ok
             THEN [before EXCEPT !.total = DecAdd(@, o.num),
                                 !.processed = @ + 1,
                                 !.type_counts = CountType(@, o.ty)]
           ELSE [before EXCEPT !.failed = @ + 1,
                               !.errors = Append(@, IndexedError(n - 1, o.msg))]

\* C19: the outcome of a call does not depend on what the shared cache held
\* when it started nor on a full clear in the middle of its stream: after
\* every token the locals are those of the same tokens parsed anew, and the
\* result of a completed call is the one computed from them.
C19_CacheIndependent ==
  /\ pc \in {"read", "finalize"}
       => <<total, processed, failed, errors, type_counts>>
            = LET f == Replay(yielded, Len(yielded))
              IN  <<f.total, f.processed, f.failed, f.errors, f.type_counts>>
  /\ (pc = "returned" /\ origin = "complete")
       => LET f  == Replay(yielded, Len(yielded))
              st == Status(f.processed, f.failed)
          IN  result = OperationResult(
                         st, FinalTotal(st, Quantize(f.total, precision)),
                         ErrorSummary(f.errors), f.processed, f.failed,
                         elapsed, f.type_counts, source.kind)

\* C19 witness: a completed call of two different tokens during which the
\* cache was cleared (the entry of the first token is gone), after an earlier
\* call had completed on the same cache
C19_Witness ==
  /\ pc = "returned" /\ origin = "complete" /\ operations_count = 2
  /\ Len(yielded) = 2 /\ strip(yielded[1]) # strip(yielded[2])
  /\ strip(yielded[1]) \notin DOMAIN cache
  /\ DOMAIN cache = {strip(yielded[2])}

\* C11: under direct calls of validate, every validation of a string returns
\* the outcome its first validation returned, whatever calls (and full clears
\* of the cache) came in between, for valid and invalid strings; and two
\* strings that differ only in surrounding whitespace get the same outcome.
C11_SameOutcomeEveryTime ==
  /\ arg # NoArg => (arg \in DOMAIN first /\ outcome = first[arg])
  /\ \A a, b \in DOMAIN first : strip(a) = strip(b) => first[a] = first[b]

\* C11 witness: " abc" was validated again after a full clear had removed its
\* entry (so it was parsed again), "abc" having been validated as well
C11_Witness ==
  /\ arg = <<" ", "a", "b", "c">> /\ again /\ ~hit /\ ~outcome.ok
  /\ <<"a", "b", "c">> \in DOMAIN first

\* C12: the cache never holds more than MAX_CACHE_SIZE entries; a miss on a
\* cache that holds MAX_CACHE_SIZE entries leaves exactly the new entry; and
\* an entry only ever leaves the cache in such a full clear, never alone.
C12_FullClearOnly ==
  [][ /\ Cardinality(DOMAIN cache) <= MAX_CACHE_SIZE
      /\ Cardinality(DOMAIN cache') <= MAX_CACHE_SIZE
      /\ (~hit' /\ Cardinality(DOMAIN cache) = MAX_CACHE_SIZE)
           => cache' = (strip(arg') :> outcome')
      /\ (\E k \in DOMAIN cache : k \notin DOMAIN cache')
           => /\ Cardinality(DOMAIN cache) = MAX_CACHE_SIZE
              /\ DOMAIN cache' = {strip(arg')}
      /\ \A k \in DOMAIN cache \cap DOMAIN cache' : cache'[k] = cache[k]
    ]_vars

\* C12 witness: a miss on a full cache left its own entry only
C12_Witness ==
  /\ arg # NoArg /\ ~hit /\ DOMAIN cache = {strip(arg)}
  /\ Cardinality(DOMAIN first) > MAX_CACHE_SIZE

\* C20: a call of validate whose trimmed input is in the cache leaves the
\* cache as it is, also when the cache holds MAX_CACHE_SIZE entries; the
\* cache changes in a miss only.
C20_HitLeavesCache ==
  [][ /\ strip(arg') \in DOMAIN cache => cache' = cache
      /\ cache' # cache => (~hit' /\ strip(arg') \notin DOMAIN cache)
    ]_vars

\* C20 witness: a hit on a cache that holds MAX_CACHE_SIZE entries
C20_Witness ==
  /\ hit /\ Cardinality(DOMAIN cache) = MAX_CACHE_SIZE
  /\ strip(arg) \in DOMAIN cache

=============================================================================
